---- MODULE Spec2Model ----
(***************************************************************************)
(* A model of src/main.py: the report generator that lists deleted         *)
(* Wikidata items which are still used in Structured Data on Commons.      *)
(*                                                                         *)
(* Strings are sequences of tokens.  Every token stands for a fixed piece  *)
(* of text whose number of characters is given by CharLen, so that         *)
(* str.startswith, slicing by a character count and str.len() are          *)
(* computed on the token sequence exactly as Python computes them on the   *)
(* characters.  No token of the alphabet is a character-wise prefix of     *)
(* another token that can stand at the same place, so a token-wise prefix  *)
(* test agrees with the character-wise one.                                *)
(***************************************************************************)
EXTENDS Integers, Sequences, FiniteSets, TLC

(***************************************************************************)
(* Bounds of the model.                                                    *)
(***************************************************************************)
\* most rows in the deleted-item query result
MaxItems == 3
\* most rows the endpoint returns over one run (all windows together)
MaxRows == 2
\* window size used by main(); the source value is 10_000
ChunkBound == 2
\* longest key list and largest chunk size tried on chunk_list alone
MaxLen == 4
MaxChunk == 3

(***************************************************************************)
(* Program constants.                                                      *)
(***************************************************************************)
WCQS_CHUNK_SIZE == ChunkBound
WCQS_SLEEP == 2
SUBJECT_MIN_LEN == 12

\* the pieces of text the strings of the model are made of
COMMONS == "https://commons.wikimedia.org/"
WIKIDATA == "http://www.wikidata.org/"
HASH == "da39a3ee5e6b4b0d3255bfef95601890afd80709"
STMT == "M1-ab12cd34-ef56-7890-ab12-cd34ef567890"

CharLen(tok) ==
    CASE tok = COMMONS -> 30
      [] tok = WIKIDATA -> 24
      [] tok = "entity/" -> 7
      [] tok = "statement/" -> 10
      [] tok = "reference/" -> 10
      [] tok = "value/" -> 6
      [] tok = "prop/" -> 5
      [] tok = "direct/" -> 7
      [] tok = "qualifier/" -> 10
      [] tok = "http://wikiba.se/ontology#" -> 26
      [] tok = "quantityUnit" -> 12
      [] tok = HASH -> 40
      [] tok = STMT -> 39
      [] tok = "M1" -> 2
      [] tok = "P180" -> 4
      [] tok = "Q5" -> 2
      [] tok = "Q7" -> 2
      [] tok = "Q10" -> 3

RECURSIVE StrLen(_)
StrLen(s) == IF s = <<>> THEN 0 ELSE CharLen(Head(s)) + StrLen(Tail(s))

StartsWith(s, p) == Len(p) <= Len(s) /\ SubSeq(s, 1, Len(p)) = p

\* s[len(p):] for a p that s starts with
StripPrefix(s, p) == SubSeq(s, Len(p) + 1, Len(s))

\* s[n:], for an n that falls on a token boundary of s (or beyond its end)
RECURSIVE DropChars(_, _)
DropChars(s, n) ==
    IF n <= 0 \/ s = <<>> THEN s
    ELSE DropChars(Tail(s), n - CharLen(Head(s)))

PREFIX_ORDER == <<"SDCS", "SDC", "SDCR", "WD", "WDT", "PR", "PQ", "PS">>

PREFIXES ==
    [tag \in {PREFIX_ORDER[k] : k \in 1..Len(PREFIX_ORDER)} |->
        CASE tag = "SDCS" -> <<COMMONS, "entity/", "statement/">>
          [] tag = "SDC" -> <<COMMONS, "entity/">>
          [] tag = "SDCR" -> <<COMMONS, "reference/">>
          [] tag = "WD" -> <<WIKIDATA, "entity/">>
          [] tag = "WDT" -> <<WIKIDATA, "prop/", "direct/">>
          [] tag = "PR" -> <<WIKIDATA, "prop/", "reference/">>
          [] tag = "PQ" -> <<WIKIDATA, "prop/", "qualifier/">>
          [] tag = "PS" -> <<WIKIDATA, "prop/", "statement/">>]

\* PREFIXES.values(), in the dict's insertion order
PrefixValues == [k \in 1..Len(PREFIX_ORDER) |-> PREFIXES[PREFIX_ORDER[k]]]

\* the value of a local variable that was never assigned
UNBOUND == <<"<unbound>">>

(***************************************************************************)
(* chunk_list: a generator.  ChunkAt is the slice it yields at offset i,   *)
(* ChunkHasNext whether range(0, len(lst), chunk_size) reaches offset i.   *)
(***************************************************************************)
ChunkAtShort(lst, i, chunk_size) ==
    SubSeq(lst, i + 1, IF i + chunk_size - 1 < Len(lst) THEN i + chunk_size - 1 ELSE Len(lst))

ChunkAt(lst, i, chunk_size) ==
    SubSeq(lst, i + 1, IF i + chunk_size < Len(lst) THEN i + chunk_size ELSE Len(lst))

ChunkHasNext(lst, i) == i < Len(lst)


(***************************************************************************)
(* The compaction loops of main(): "for prefix in PREFIXES.values()" with  *)
(* no break.  StripLoop runs the loop from table position k on, carrying   *)
(* the (possibly already stripped) string and the last prefix assigned.    *)
(***************************************************************************)
RECURSIVE StripLoop(_, _, _)
StripLoop(s, last_prefix, k) ==
    IF k > Len(PrefixValues) THEN [s |-> s, prefix |-> last_prefix]
    ELSE IF ~StartsWith(s, PrefixValues[k]) THEN StripLoop(s, last_prefix, k + 1)
    ELSE StripLoop(StripPrefix(s, PrefixValues[k]), PrefixValues[k], k + 1)

\* lines 292-297: subject and subject_prefix after the loop; subject_prefix
\* keeps the value it had before the loop when no prefix matches
CompactSubject(file, subject_prefix_before) == StripLoop(file, subject_prefix_before, 1)

\* lines 299-303 and 306-309: the same loop without the prefix variable
CompactPlain(s) == StripLoop(s, UNBOUND, 1).s

\* lines 292-318 for one row: the dict appended to results, the value of
\* subject_prefix afterwards, and whether line 314 read it unassigned
ProcessRow(row, subject_prefix_before) ==
    LET c == CompactSubject(row.file, subject_prefix_before)
        predicate == CompactPlain(row.predicate)
        item == CompactPlain(DropChars(row.item, StrLen(PREFIXES["WD"])))
    IN  [ row |-> [ subject |-> c.s,
                    subject_prefix |-> c.prefix,
                    predicate |-> predicate,
                    item |-> item ],
          subject_prefix |-> c.prefix,
          unbound |-> (c.prefix = UNBOUND) ]

\* lines 291-318: the loop over one payload; stops at the first row that
\* raises UnboundLocalError
RECURSIVE ProcessRows(_, _, _)
ProcessRows(payload, res, sp) ==
    IF payload = <<>> THEN [results |-> res, subject_prefix |-> sp, error |-> FALSE]
    ELSE LET r == ProcessRow(Head(payload), sp)
         IN  IF r.unbound THEN [results |-> res, subject_prefix |-> sp, error |-> TRUE]
             ELSE ProcessRows(Tail(payload), Append(res, r.row), r.subject_prefix)

(***************************************************************************)
(* Data frames are sequences of records; the index label of a row of       *)
(* raw_df is kept in the field idx.                                        *)
(***************************************************************************)
NaN == "NaN"
NaT == "NaT"

\* pd.DataFrame.from_dict(data=results)
RawFrame(res) ==
    [k \in 1..Len(res) |->
        [ idx |-> k - 1,
          subject |-> res[k].subject,
          subject_prefix |-> res[k].subject_prefix,
          predicate |-> res[k].predicate,
          item |-> res[k].item ]]

\* line 324: the series handed to spot_invalid_references
ReferenceSubjects(frame) ==
    LET hit == SelectSeq(frame, LAMBDA r : r.subject_prefix = PREFIXES["SDCR"])
    IN  [k \in 1..Len(hit) |-> hit[k].subject]

\* lines 175-179: the IRIs of the VALUES clause; an empty series leaves the
\* bare "sdcref:", which is the namespace IRI itself
ValidationValues(s) ==
    IF s = <<>> THEN {PREFIXES["SDCR"]}
    ELSE {PREFIXES["SDCR"] \o s[k] : k \in 1..Len(s)}

\* lines 184-191
InvalidReferences(payload) == {DropChars(v, StrLen(PREFIXES["SDCR"])) : v \in payload}

\* line 325, with the prefix column also tested
ExcludeReferenceRowsOnly(frame, invalid) ==
    SelectSeq(frame, LAMBDA r :
        ~(r.subject \in invalid /\ r.subject_prefix = PREFIXES["SDCR"]))

\* line 325
Exclude(frame, invalid) == SelectSeq(frame, LAMBDA r : r.subject \notin invalid)


(***************************************************************************)
(* make_presentable_dataframe                                              *)
(***************************************************************************)
\* lines 195-200: the left join of the rows with the deletion metadata
RECURSIVE MergeMeta(_, _)
MergeMeta(frame, meta) ==
    IF frame = <<>> THEN <<>>
    ELSE LET r == Head(frame)
             m == SelectSeq(meta, LAMBDA q : q.qid = r.item)
             joined(q) == [ subject |-> r.subject, subject_prefix |-> r.subject_prefix,
                            predicate |-> r.predicate, item |-> r.item,
                            qid |-> q.qid, admin |-> q.admin, ts |-> q.ts ]
             rows == IF m = <<>> THEN << joined([qid |-> NaN, admin |-> NaN, ts |-> NaN]) >>
                     ELSE [k \in 1..Len(m) |-> joined(m[k])]
         IN  rows \o MergeMeta(Tail(frame), meta)

\* drop_duplicates(): the first occurrence of every row is kept
RECURSIVE DropDuplicates(_, _)
DropDuplicates(frame, seen) ==
    IF frame = <<>> THEN <<>>
    ELSE IF Head(frame) \in seen THEN DropDuplicates(Tail(frame), seen)
    ELSE <<Head(frame)>> \o DropDuplicates(Tail(frame), seen \cup {Head(frame)})

\* line 202: the rows with a long subject, cut to three columns
LongSubjects(merged) ==
    LET long == SelectSeq(merged, LAMBDA r : StrLen(r.subject) > SUBJECT_MIN_LEN)
    IN  [k \in 1..Len(long) |->
            [item |-> long[k].item, admin |-> long[k].admin, ts |-> long[k].ts]]

\* line 204 with the group sizes taken after the subject length filter
GroupSizeLongOnly(merged, item) ==
    Cardinality({k \in 1..Len(merged) :
        merged[k].item = item /\ StrLen(merged[k].subject) > SUBJECT_MIN_LEN})

\* line 204: df.groupby(by='item').size(), read at one item
GroupSize(merged, item) == Cardinality({k \in 1..Len(merged) : merged[k].item = item})

\* line 209: pd.to_datetime(ts, format='%Y%m%d%H%M%S')
ToDatetime(ts) ==
    CASE ts = NaN -> NaT
      [] ts = "20230101000000" -> "2023-01-01 00:00:00"
      [] ts = "20211231235959" -> "2021-12-31 23:59:59"

\* lines 195-209: the frame make_presentable_dataframe returns
MakePresentable(frame, meta) ==
    LET merged == MergeMeta(frame, meta)
        d == DropDuplicates(LongSubjects(merged), {})
    IN  [k \in 1..Len(d) |->
            [ item |-> d[k].item, admin |-> d[k].admin, ts |-> d[k].ts,
              cnt |-> GroupSize(merged, d[k].item),
              timestamp |-> ToDatetime(d[k].ts) ]]

(***************************************************************************)
(* make_table                                                              *)
(***************************************************************************)
\* str.removeprefix('Q').astype(int)
QNum(item) ==
    CASE item = <<"Q5">> -> 5
      [] item = <<"Q7">> -> 7
      [] item = <<"Q10">> -> 10

\* line 222-227: the table rows in the order of sort_values(), which is not
\* a stable sort: rows of the same item come in any order
Tables(frame) ==
    LET n == Len(frame)
        perms == {p \in [1..n -> 1..n] :
                    /\ \A a, b \in 1..n : a # b => p[a] # p[b]
                    /\ \A a, b \in 1..n : a < b => QNum(frame[p[a]].item) <= QNum(frame[p[b]].item)}
    IN  {[k \in 1..n |->
            [ item |-> frame[p[k]].item, admin |-> frame[p[k]].admin,
              timestamp |-> frame[p[k]].timestamp, cnt |-> frame[p[k]].cnt ]] : p \in perms}


(***************************************************************************)
(* What the outside world can answer.                                      *)
(***************************************************************************)
SeqsUpTo(S, n) == UNION {[1..k -> S] : k \in 0..n}

\* rows of the deleted-item query: the latest deletion of a title; two log
\* entries of one title with the same timestamp give two rows
DeletedPool ==
    { [qid |-> <<"Q5">>, admin |-> "Alice", ts |-> "20230101000000"],
      [qid |-> <<"Q5">>, admin |-> "Bob", ts |-> "20230101000000"],
      [qid |-> <<"Q7">>, admin |-> "Carol", ts |-> "20230101000000"],
      [qid |-> <<"Q10">>, admin |-> "Alice", ts |-> "20211231235959"] }

\* the query's ORDER BY: ascending by the number of the title; every log
\* entry gives one row
DbResults ==
    {r \in SeqsUpTo(DeletedPool, MaxItems) :
        \A a, b \in 1..Len(r) :
            a < b => r[a] # r[b] /\ QNum(r[a].qid) <= QNum(r[b].qid)}

\* (?file, ?predicate) of a binding: a statement node, a MediaInfo entity,
\* a reference node, a value node under a predicate outside the table, an
\* entity IRI whose local part is a hash, and an entity IRI whose local
\* part is itself an IRI of the table
Shapes ==
    { [file |-> <<COMMONS, "entity/", "statement/", STMT>>,
       predicate |-> <<WIKIDATA, "prop/", "statement/", "P180">>],
      [file |-> <<COMMONS, "entity/", "M1">>,
       predicate |-> <<WIKIDATA, "prop/", "direct/", "P180">>],
      [file |-> <<COMMONS, "reference/", HASH>>,
       predicate |-> <<WIKIDATA, "prop/", "reference/", "P180">>],
      [file |-> <<COMMONS, "value/", HASH>>,
       predicate |-> <<"http://wikiba.se/ontology#", "quantityUnit">>],
      [file |-> <<COMMONS, "entity/", HASH>>,
       predicate |-> <<WIKIDATA, "prop/", "direct/", "P180">>],
      [file |-> <<COMMONS, "entity/", WIKIDATA, "entity/", "Q5">>,
       predicate |-> <<WIKIDATA, "prop/", "direct/", "P180">>] }

\* the bindings a window's query can return: ?item ranges over its VALUES
RowPool(window) ==
    { [file |-> sh.file, predicate |-> sh.predicate, item |-> PREFIXES["WD"] \o window[k]] :
        sh \in Shapes, k \in 1..Len(window) }

KeyPool == {<<"Q5">>, <<"Q10">>}

(***************************************************************************)
(* State.                                                                  *)
(***************************************************************************)
VARIABLES
    pc,                 \* position of main(), or of the generator alone
    error,              \* the exception that ended the run, "" if none
    exit_code,          \* process exit status, -1 while running
    events,             \* what the run did to the outside world, in order
    in_flight,          \* HTTP requests sent and not yet answered
    qids,               \* the deleted-item frame
    gen_lst, gen_size, gen_i,   \* the chunk_list generator
    chunks,             \* the chunks the generator has yielded
    sub_lst,            \* the window being fetched
    results,            \* the accumulated row dicts
    fetched,            \* the bindings received, in order (results[k] comes from fetched[k])
    subject_prefix,     \* the local variable of that name
    raw_df,             \* raw_df after line 325
    invalid_references, \* result of spot_invalid_references
    df,                 \* the frame make_presentable_dataframe returned
    snapshot,           \* content of ./results.feather
    page                \* text of the report page

vars == << pc, error, exit_code, events, in_flight, qids, gen_lst, gen_size, gen_i,
           chunks, sub_lst, results, fetched, subject_prefix, raw_df,
           invalid_references, df, snapshot, page >>

\* a file or page the run has not written
NONE == [written |-> FALSE, content |-> <<>>]
Written(content) == [written |-> TRUE, content |-> content]

Ev(name, arg) == [ev |-> name, arg |-> arg]

InitData ==
    /\ error = ""
    /\ exit_code = -1
    /\ events = <<>>
    /\ in_flight = 0
    /\ qids = <<>>
    /\ gen_i = 0
    /\ chunks = <<>>
    /\ sub_lst = <<>>
    /\ results = <<>>
    /\ fetched = <<>>
    /\ subject_prefix = UNBOUND
    /\ raw_df = <<>>
    /\ invalid_references = {}
    /\ df = <<>>
    /\ snapshot = NONE
    /\ page = NONE

Init ==
    /\ pc = "read_token"
    /\ gen_lst = <<>>
    /\ gen_size = WCQS_CHUNK_SIZE
    /\ InitData

\* an unhandled exception: the traceback is printed and the process ends
Raise(name) ==
    /\ pc' = "crashed"
    /\ error' = name
    /\ exit_code' = 1


(***************************************************************************)
(* main(), one action per stretch of code between two calls to the         *)
(* outside world.                                                          *)
(***************************************************************************)
\* ReadToken without the exit() of line 268: the error is logged and the run
\* goes on with no token
ReadTokenNoExit ==
    /\ pc = "read_token"
    /\ \E present \in BOOLEAN :
        IF present
        THEN events' = Append(events, Ev("token_read", 0))
        ELSE events' = events \o <<Ev("token_missing", 0), Ev("log_error", 0)>>
    /\ pc' = "query_deleted_items"
    /\ UNCHANGED << error, exit_code, in_flight, qids, gen_lst, gen_size, gen_i, chunks,
                    sub_lst, results, fetched, subject_prefix, raw_df,
                    invalid_references, df, snapshot, page >>

\* lines 264-270: the token file is read; without it the error is logged
\* and exit() is called with a message, which ends the process with status 1
ReadToken ==
    /\ pc = "read_token"
    /\ \E present \in BOOLEAN :
        IF present
        THEN /\ events' = Append(events, Ev("token_read", 0))
             /\ pc' = "query_deleted_items"
             /\ UNCHANGED exit_code
        ELSE /\ events' = events \o <<Ev("token_missing", 0), Ev("log_error", 0)>>
             /\ pc' = "exited"
             /\ exit_code' = 1
    /\ UNCHANGED << error, in_flight, qids, gen_lst, gen_size, gen_i, chunks, sub_lst,
                    results, fetched, subject_prefix, raw_df, invalid_references,
                    df, snapshot, page >>

\* lines 279-283, with query_deleted_items (78-119): one database query
QueryDeletedItems ==
    /\ pc = "query_deleted_items"
    /\ events' = Append(events, Ev("db_query", 0))
    /\ \/ /\ Raise("mariadb.Error")
          /\ UNCHANGED << qids, gen_lst >>
       \/ \E rows \in DbResults :
            /\ qids' = SelectSeq(rows, LAMBDA r : Head(r.qid) \in {"Q5", "Q7", "Q10"})
            /\ gen_lst' = [k \in 1..Len(qids') |-> qids'[k].qid]
            /\ pc' = "chunk_next"
            /\ UNCHANGED << error, exit_code >>
    /\ UNCHANGED << in_flight, gen_size, gen_i, chunks, sub_lst, results, fetched,
                    subject_prefix, raw_df, invalid_references, df, snapshot, page >>

\* lines 285-288 up to the POST: the generator yields the next window (after
\* its progress line) and the window's query is sent
FetchRequest ==
    /\ pc = "chunk_next"
    /\ ChunkHasNext(gen_lst, gen_i)
    /\ sub_lst' = ChunkAt(gen_lst, gen_i, gen_size)
    /\ chunks' = Append(chunks, sub_lst')
    /\ events' = events \o <<Ev("progress", gen_i), Ev("request", gen_i)>>
    /\ in_flight' = in_flight + 1
    /\ pc' = "post_fetch"
    /\ UNCHANGED << error, exit_code, qids, gen_lst, gen_size, gen_i, results, fetched,
                    subject_prefix, raw_df, invalid_references, df, snapshot, page >>

\* FetchResponse without the raise_for_status() of line 161: the body of a
\* failed response holds no bindings and the loop goes on
FetchResponseSwallow ==
    /\ pc = "post_fetch"
    /\ in_flight' = in_flight - 1
    /\ \/ /\ events' = Append(events, Ev("response_error", gen_i))
          /\ pc' = "sleep"
          /\ UNCHANGED << error, exit_code, results, fetched, subject_prefix >>
       \/ \E payload \in SeqsUpTo(RowPool(sub_lst), MaxRows - Len(results)) :
            LET r == ProcessRows(payload, results, subject_prefix)
            IN  /\ events' = Append(events, Ev("response", gen_i))
                /\ fetched' = fetched \o payload
                /\ results' = r.results
                /\ subject_prefix' = r.subject_prefix
                /\ IF r.error
                   THEN Raise("UnboundLocalError")
                   ELSE pc' = "sleep" /\ UNCHANGED << error, exit_code >>
    /\ UNCHANGED << qids, gen_lst, gen_size, gen_i, chunks, sub_lst, raw_df,
                    invalid_references, df, snapshot, page >>

\* lines 161-165 and 289-318: the answer to a window's query
FetchResponse ==
    /\ pc = "post_fetch"
    /\ in_flight' = in_flight - 1
    /\ \/ /\ events' = Append(events, Ev("response_error", gen_i))
          /\ Raise("HTTPError")
          /\ UNCHANGED << results, fetched, subject_prefix >>
       \/ \E payload \in SeqsUpTo(RowPool(sub_lst), MaxRows - Len(results)) :
            LET r == ProcessRows(payload, results, subject_prefix)
            IN  /\ events' = Append(events, Ev("response", gen_i))
                /\ fetched' = fetched \o payload
                /\ results' = r.results
                /\ subject_prefix' = r.subject_prefix
                /\ IF r.error
                   THEN Raise("UnboundLocalError")
                   ELSE pc' = "sleep" /\ UNCHANGED << error, exit_code >>
    /\ UNCHANGED << qids, gen_lst, gen_size, gen_i, chunks, sub_lst, raw_df,
                    invalid_references, df, snapshot, page >>

\* Sleep without the sleep() of line 320
SleepMissing ==
    /\ pc = "sleep"
    /\ gen_i' = gen_i + gen_size
    /\ pc' = "chunk_next"
    /\ UNCHANGED << error, exit_code, events, in_flight, qids, gen_lst, gen_size, chunks,
                    sub_lst, results, fetched, subject_prefix, raw_df,
                    invalid_references, df, snapshot, page >>

\* line 320, and the generator resumed for the next round of the loop
Sleep ==
    /\ pc = "sleep"
    /\ events' = Append(events, Ev("sleep", WCQS_SLEEP))
    /\ gen_i' = gen_i + gen_size
    /\ pc' = "chunk_next"
    /\ UNCHANGED << error, exit_code, in_flight, qids, gen_lst, gen_size, chunks, sub_lst,
                    results, fetched, subject_prefix, raw_df, invalid_references,
                    df, snapshot, page >>

\* lines 322-324 up to the POST of spot_invalid_references (175-181); a frame
\* built from an empty list has no column 'subject_prefix'
ValidateRequest ==
    /\ pc = "chunk_next"
    /\ ~ChunkHasNext(gen_lst, gen_i)
    /\ IF results = <<>>
       THEN /\ Raise("KeyError")
            /\ UNCHANGED << events, in_flight, raw_df >>
       ELSE /\ raw_df' = RawFrame(results)
            /\ events' = Append(events, Ev("request_validation", 0))
            /\ in_flight' = in_flight + 1
            /\ pc' = "post_validate"
            /\ UNCHANGED << error, exit_code >>
    /\ UNCHANGED << qids, gen_lst, gen_size, gen_i, chunks, sub_lst, results, fetched,
                    subject_prefix, invalid_references, df, snapshot, page >>

\* lines 161-165, 182-191 and 325: the answer of the validation query, a
\* subset of its VALUES, and the exclusion
ValidateResponse ==
    /\ pc = "post_validate"
    /\ in_flight' = in_flight - 1
    /\ \/ /\ events' = Append(events, Ev("response_error", 0))
          /\ Raise("HTTPError")
          /\ UNCHANGED << raw_df, invalid_references >>
       \/ \E payload \in SUBSET ValidationValues(ReferenceSubjects(raw_df)) :
            /\ events' = Append(events, Ev("response_validation", 0))
            /\ invalid_references' = InvalidReferences(payload)
            /\ raw_df' = Exclude(raw_df, invalid_references')
            /\ pc' = "aggregate"
            /\ UNCHANGED << error, exit_code >>
    /\ UNCHANGED << qids, gen_lst, gen_size, gen_i, chunks, sub_lst, results, fetched,
                    subject_prefix, df, snapshot, page >>

\* lines 327-328, make_presentable_dataframe with its snapshot write (211)
Aggregate ==
    /\ pc = "aggregate"
    /\ \/ /\ events' = Append(events, Ev("snapshot_error", 0))
          /\ Raise("OSError")
          /\ UNCHANGED << df, snapshot >>
       \/ /\ df' = MakePresentable(raw_df, qids)
          /\ snapshot' = Written(df')
          /\ events' = Append(events, Ev("snapshot", 0))
          /\ pc' = "publish"
          /\ UNCHANGED << error, exit_code >>
    /\ UNCHANGED << in_flight, qids, gen_lst, gen_size, gen_i, chunks, sub_lst, results,
                    fetched, subject_prefix, raw_df, invalid_references, page >>

\* lines 330-335: the table and the report are rendered and the page saved
Publish ==
    /\ pc = "publish"
    /\ \E table \in Tables(df) :
        \/ /\ events' = Append(events, Ev("publish", 0))
           /\ Raise("pywikibot.Error")
           /\ UNCHANGED page
        \/ /\ events' = events \o <<Ev("publish", 0), Ev("log_success", 0)>>
           /\ page' = Written(table)
           /\ pc' = "done"
           /\ exit_code' = 0
           /\ UNCHANGED error
    /\ UNCHANGED << in_flight, qids, gen_lst, gen_size, gen_i, chunks, sub_lst, results,
                    fetched, subject_prefix, raw_df, invalid_references, df, snapshot >>

Next ==
    \/ ReadToken
    \/ QueryDeletedItems
    \/ FetchRequest
    \/ FetchResponse
    \/ Sleep
    \/ ValidateRequest
    \/ ValidateResponse
    \/ Aggregate
    \/ Publish

Spec == Init /\ [][Next]_vars

(***************************************************************************)
(* chunk_list on its own, for any list and any positive chunk size.        *)
(***************************************************************************)
InitChunk ==
    /\ pc = "chunk_list"
    /\ gen_lst \in SeqsUpTo(KeyPool, MaxLen)
    /\ gen_size \in 1..MaxChunk
    /\ InitData

\* lines 169-171: one round of the generator's loop
ChunkYield ==
    /\ pc = "chunk_list"
    /\ ChunkHasNext(gen_lst, gen_i)
    /\ chunks' = Append(chunks, ChunkAt(gen_lst, gen_i, gen_size))
    /\ gen_i' = gen_i + gen_size
    /\ UNCHANGED << pc, error, exit_code, events, in_flight, qids, gen_lst, gen_size,
                    sub_lst, results, fetched, subject_prefix, raw_df,
                    invalid_references, df, snapshot, page >>

\* line 169: the range is exhausted and the generator returns
ChunkStop ==
    /\ pc = "chunk_list"
    /\ ~ChunkHasNext(gen_lst, gen_i)
    /\ pc' = "chunk_done"
    /\ UNCHANGED << error, exit_code, events, in_flight, qids, gen_lst, gen_size, gen_i,
                    chunks, sub_lst, results, fetched, subject_prefix, raw_df,
                    invalid_references, df, snapshot, page >>

NextChunk == ChunkYield \/ ChunkStop

SpecChunk == InitChunk /\ [][NextChunk]_vars


(***************************************************************************)
(* Properties.                                                             *)
(***************************************************************************)
HasEv(name) == \E k \in 1..Len(events) : events[k].ev = name
CountEv(name) == Cardinality({k \in 1..Len(events) : events[k].ev = name})
CountBefore(name, k) == Cardinality({j \in 1..(k - 1) : events[j].ev = name})

\* the number of windows of the key list
NumWindows == (Len(gen_lst) + gen_size - 1) \div gen_size

ErrorEvents == {"token_missing", "log_error", "response_error", "snapshot_error"}

\* the stages that come before the publish step, and their order
StageNames == {"token_read", "db_query", "response", "response_validation", "snapshot"}
StageRank(name) ==
    CASE name = "token_read" -> 1
      [] name = "db_query" -> 2
      [] name = "response" -> 3
      [] name = "response_validation" -> 4
      [] name = "snapshot" -> 5

\* C1: the page is saved at most once, and only after the token read, the
\* deleted-item query, the fetch of every window, the validation query and
\* the aggregation with its snapshot write have happened, in this order and
\* with no error; a run in which a WCQS request failed never publishes.
C1_PublishOnlyAfterAllStages ==
    /\ CountEv("publish") <= 1
    /\ page # NONE => HasEv("publish")
    /\ \A k \in 1..Len(events) : events[k].ev = "publish" =>
        /\ \A j \in 1..(k - 1) : events[j].ev \notin ErrorEvents
        /\ CountBefore("response", k) = NumWindows
        /\ \A st \in {"token_read", "db_query", "response_validation", "snapshot"} :
            CountBefore(st, k) = 1
        /\ \A i, j \in 1..(k - 1) :
            (events[i].ev \in StageNames /\ events[j].ev \in StageNames
                /\ StageRank(events[i].ev) < StageRank(events[j].ev)) => i < j
    /\ HasEv("response_error") =>
        /\ ~HasEv("publish")
        /\ page = NONE
        /\ pc = "crashed"

C1_Witness ==
    /\ pc = "done"
    /\ page # NONE
    /\ CountEv("response") = 2

\* C7: with the token file missing the error is logged, the process exits
\* with a nonzero status, and the run makes no database query, no WCQS
\* request and no publish.
C7_MissingTokenStopsBeforeNetwork ==
    HasEv("token_missing") =>
        /\ HasEv("log_error")
        /\ pc = "exited"
        /\ exit_code # 0 /\ exit_code # -1
        /\ in_flight = 0
        /\ \A k \in 1..Len(events) :
            events[k].ev \notin {"db_query", "request", "request_validation", "publish"}
        /\ page = NONE

C7_Witness == pc = "exited" /\ HasEv("token_missing")

\* the events of the fetch loop and of the validation query
FetchEvents ==
    SelectSeq(events, LAMBDA e : e.ev \in
        {"request", "response", "response_error", "sleep",
         "request_validation", "response_validation"})

\* C8: one request per window, in list order, never two outstanding, a sleep
\* of WCQS_SLEEP after every window's response and before the next request,
\* and the validation request only after the last window was fetched.
C8_SequentialThrottledFetch ==
    LET F == FetchEvents
        \* the events come in rounds of three: request, response, sleep
        round(k) == (k - 1) \div 3
    IN  /\ in_flight \in {0, 1}
        /\ in_flight = 1 <=> pc \in {"post_fetch", "post_validate"}
        /\ CountEv("request") = Len(chunks)
        /\ Len(chunks) <= NumWindows
        /\ gen_lst = <<>> => ~HasEv("request")
        /\ \A j \in 1..Len(chunks) :
            /\ Len(chunks[j]) = IF j * gen_size <= Len(gen_lst) THEN gen_size
                                ELSE Len(gen_lst) - (j - 1) * gen_size
            /\ chunks[j] = [x \in 1..Len(chunks[j]) |-> gen_lst[(j - 1) * gen_size + x]]
        /\ \A k \in 1..Len(F) :
            /\ F[k].ev = "request" =>
                /\ k % 3 = 1
                /\ k = 1 \/ (F[k - 1].ev = "sleep" /\ F[k - 1].arg = WCQS_SLEEP)
                /\ F[k].arg = round(k) * gen_size
            /\ F[k].ev \in {"response", "response_error"} =>
                /\ k % 3 = 2
                /\ F[k - 1].ev \in {"request", "request_validation"}
                /\ F[k].arg = F[k - 1].arg
            /\ F[k].ev = "response" => k = Len(F) \/ F[k + 1].ev = "sleep"
            /\ F[k].ev = "sleep" => k % 3 = 0 /\ F[k - 1].ev = "response"
            /\ F[k].ev = "request_validation" =>
                /\ k = 3 * NumWindows + 1
                /\ k > 1 /\ F[k - 1].ev = "sleep"
                /\ \A j \in (k + 1)..Len(F) : F[j].ev \notin {"request", "request_validation"}
            /\ F[k].ev = "response_validation" => F[k - 1].ev = "request_validation"

C8_Witness ==
    /\ HasEv("request_validation")
    /\ Len(chunks) = 2
    /\ Len(chunks[1]) > Len(chunks[2])
    /\ CountEv("sleep") = 2


\* C4: the chunks chunk_list yields, concatenated in order, are the list;
\* every chunk but the last has chunk_size elements, no chunk is empty, and
\* an empty list yields no chunk.
RECURSIVE Concat(_)
Concat(ss) == IF ss = <<>> THEN <<>> ELSE Head(ss) \o Concat(Tail(ss))

C4_ChunkCoverage ==
    /\ \A k \in 1..Len(chunks) : chunks[k] # <<>> /\ Len(chunks[k]) <= gen_size
    /\ \A k \in 1..(Len(chunks) - 1) : Len(chunks[k]) = gen_size
    /\ gen_lst = <<>> => chunks = <<>>
    /\ pc = "chunk_list" =>
        Concat(chunks) = SubSeq(gen_lst, 1, IF gen_i < Len(gen_lst) THEN gen_i ELSE Len(gen_lst))
    /\ pc = "chunk_done" => Concat(chunks) = gen_lst

C4_Witness ==
    /\ pc = "chunk_done"
    /\ Len(chunks) = 2
    /\ gen_size = 3
    /\ Len(chunks[2]) = 1
    /\ chunks[1] # <<chunks[2][1], chunks[2][1], chunks[2][1]>>

(***************************************************************************)
(* Counting rows for the aggregation claims.                               *)
(***************************************************************************)
\* the frame returned by make_presentable_dataframe exists
Aggregated == pc \in {"publish", "done"} \/ (pc = "crashed" /\ error = "pywikibot.Error")

\* how many rows of the deletion metadata carry this id
MetaRows(item) == Cardinality({k \in 1..Len(qids) : qids[k].qid = item})
JoinFactor(item) == IF MetaRows(item) = 0 THEN 1 ELSE MetaRows(item)

\* the fetched rows of an item that the exclusion set does not name
Surviving(item) ==
    {k \in 1..Len(results) : results[k].item = item /\ results[k].subject \notin invalid_references}
SurvivingLong(item) ==
    {k \in Surviving(item) : StrLen(results[k].subject) > SUBJECT_MIN_LEN}
Excluded == {k \in 1..Len(results) : results[k].subject \in invalid_references}

ItemsSeen == {results[k].item : k \in 1..Len(results)}
ItemsListed == {df[k].item : k \in 1..Len(df)}

\* C2: no row whose subject local id is in the exclusion set contributes to
\* a cnt, and no such row makes an item appear in the table.
C2_ExcludedRowsDoNotCount ==
    Aggregated =>
        \A k \in 1..Len(df) :
            /\ df[k].cnt <= Cardinality(Surviving(df[k].item)) * JoinFactor(df[k].item)
            /\ Surviving(df[k].item) # {}

C2_Witness ==
    /\ pc = "done"
    /\ \E k \in Excluded : results[k].item \in ItemsListed

\* C3 as claimed: with every window fetched, a run ends in an error only if
\* a later call to the outside world failed; in particular not because no
\* usage row was fetched.
C3_NoUsageRowsIsNoError ==
    (pc = "crashed" /\ qids # <<>> /\ ~ChunkHasNext(gen_lst, gen_i)
        /\ CountEv("response") = NumWindows)
        => error \in {"mariadb.Error", "HTTPError", "OSError", "pywikibot.Error"}

\* the first prefix of the table, in table order, that s starts with
FirstMatch(s) ==
    LET hits == {k \in 1..Len(PrefixValues) : StartsWith(s, PrefixValues[k])}
    IN  PrefixValues[CHOOSE k \in hits : \A j \in hits : k <= j]
HasMatch(s) == \E k \in 1..Len(PrefixValues) : StartsWith(s, PrefixValues[k])

\* C5 as claimed, for the IRIs that start with a prefix of the table: the
\* local id is the IRI without the first matching prefix, and only that one
\* is removed; the recorded subject prefix is that prefix.
C5_FirstMatchOnly ==
    \A k \in 1..Len(results) :
        /\ HasMatch(fetched[k].file) =>
            /\ results[k].subject = StripPrefix(fetched[k].file, FirstMatch(fetched[k].file))
            /\ results[k].subject_prefix = FirstMatch(fetched[k].file)
        /\ HasMatch(fetched[k].predicate) =>
            results[k].predicate = StripPrefix(fetched[k].predicate, FirstMatch(fetched[k].predicate))

\* C6 as claimed, for deletion metadata with one row per id: cnt is the
\* number of the item's rows that survive the exclusion and have a subject
\* longer than 12.
C6_CountsKeptRowsOnly ==
    (Aggregated /\ \A i \in ItemsSeen : MetaRows(i) <= 1) =>
        \A k \in 1..Len(df) : df[k].cnt = Cardinality(SurvivingLong(df[k].item))

\* C6 amended: cnt is the number of the item's rows that survive the
\* exclusion, whatever the length of their subject, each counted once per
\* metadata row of the item; an item is listed iff one of its surviving rows
\* has a subject longer than 12.
C6_CountsSurvivingRows ==
    Aggregated =>
        /\ \A k \in 1..Len(df) :
            df[k].cnt = Cardinality(Surviving(df[k].item)) * JoinFactor(df[k].item)
        /\ \A i \in ItemsSeen : i \in ItemsListed <=> SurvivingLong(i) # {}
        /\ ItemsListed \subseteq ItemsSeen

C6_Witness ==
    /\ pc = "done"
    /\ \E k \in 1..Len(df) :
        /\ df[k].cnt = 2
        /\ MetaRows(df[k].item) = 1
        /\ Cardinality(SurvivingLong(df[k].item)) = 1

\* C9 as claimed: a row whose recorded subject prefix is the reference-node
\* namespace, and which therefore is a candidate of the validator, has a
\* subject IRI in that namespace.
C9_PrefixFromOwnSubject ==
    \A k \in 1..Len(results) :
        results[k].subject_prefix = PREFIXES["SDCR"] =>
            StartsWith(fetched[k].file, PREFIXES["SDCR"])

\* C10 as claimed: every row the exclusion removes is a reference-node row
\* whose local id the validator returned; rows of other namespaces stay.
C10_OnlyReferenceRowsDropped ==
    pc \in {"aggregate", "publish", "done"} =>
        \A k \in 1..Len(results) :
            (\A j \in 1..Len(raw_df) : raw_df[j].idx # k - 1) =>
                /\ results[k].subject_prefix = PREFIXES["SDCR"]
                /\ results[k].subject \in invalid_references

====
